---- MODULE Spec2Model ----
(***************************************************************************)
(* Model of sync.py: one run of main(): configuration, database           *)
(* connection, extraction of the five tables, the bulk transfer and the    *)
(* per-batch legacy transfer with its retry loop.                          *)
(*                                                                         *)
(* A record is modelled by the kind of scalar it holds, which is all the   *)
(* JSON encoder looks at.  A table is the sequence of its records.         *)
(***************************************************************************)
EXTENDS Integers, Sequences, FiniteSets, TLC

(***************************************************************************)
(* Program constants                                                       *)
(***************************************************************************)
BATCH_SIZE == 3000

MAX_RETRIES == 3

MIN_TIMEOUT == 300

HTTP_OK == 200

\* time.sleep(2) in the retry loop
RETRY_PAUSE == 2

target_database == "safa"

\* fetch_data_parallel: the tables, in extraction order
tables == <<"acc_users", "personel", "mag_subject", "cce_assessmentitems", "cce_entry">>

\* the first two tables in the other order
tables_to_sync_swapped == <<"personel", "acc_users", "mag_subject", "cce_assessmentitems", "cce_entry">>

\* sync_data_to_api_legacy: the tables, in transfer order
tables_to_sync == <<"acc_users", "personel", "mag_subject", "cce_assessmentitems", "cce_entry">>

(***************************************************************************)
(* Bounds of the model                                                     *)
(***************************************************************************)
\* a table is cut into at most MaxChunks batches
MaxChunks == 2

\* the five tables together hold at most this many records
MaxTotalRecords == 3002

\* pure-function checks: lists of at most MaxLen records, chunk sizes up to MaxChunkSize
MaxLen == 4

MaxChunkSize == 3

\* the timeout computation on its own: totals up to MaxTimeoutRecords
MaxTimeoutRecords == 33000

(***************************************************************************)
(* Helpers                                                                 *)
(***************************************************************************)
Min(a, b) == IF a < b THEN a ELSE b

Max(a, b) == IF a > b THEN a ELSE b

\* ceil(n / s) for n >= 0, s > 0
CeilDiv(n, s) == (n + s - 1) \div s

RECURSIVE SumLen(_, _)
\* sum(len(table_data) for table_data in d.values())
SumLen(d, keys) ==
    IF keys = {} THEN 0
    ELSE LET t == CHOOSE x \in keys : TRUE
         IN  Len(d[t]) + SumLen(d, keys \ {t})

RECURSIVE Concat(_)
\* the concatenation of a sequence of lists
Concat(ss) == IF ss = <<>> THEN <<>> ELSE Head(ss) \o Concat(Tail(ss))

(***************************************************************************)
(* Payload codec: json.dumps(..., cls=DecimalEncoder)                      *)
(***************************************************************************)
\* scalars json encodes natively, scalars DecimalEncoder.default converts,
\* and scalars neither handles (bytes from a binary column)
ScalarKinds == {"str", "Decimal", "date", "datetime", "bytes"}

Encodable(kind) == kind \in {"str", "Decimal", "date", "datetime"}

\* DecimalEncoder.default and the encoder's native types
EncodeScalar(kind) ==
    CASE kind = "Decimal"  -> "float"
      [] kind = "date"     -> "isoformat"
      [] kind = "datetime" -> "isoformat"
      [] kind = "str"      -> "str"
      [] OTHER             -> "TypeError"

EncodeList(records) == [i \in DOMAIN records |-> EncodeScalar(records[i])]

ListEncodable(records) == \A i \in DOMAIN records : Encodable(records[i])

(***************************************************************************)
(* Batching engine                                                         *)
(***************************************************************************)
\* a slice that stops one record early
SliceShort(data_list, i, j) == SubSeq(data_list, i + 1, Min(j, Len(data_list)) - 1)

\* data_list[i:j] with Python's 0-based, end-exclusive, clamped slice
Slice(data_list, i, j) == SubSeq(data_list, i + 1, Min(j, Len(data_list)))

RECURSIVE chunk_from(_, _, _)
\* the generator's loop: for i in range(i, len(data_list), chunk_size)
chunk_from(data_list, chunk_size, i) ==
    IF i >= Len(data_list) THEN <<>>
    ELSE <<Slice(data_list, i, i + chunk_size)>>
             \o chunk_from(data_list, chunk_size, i + chunk_size)

\* chunks one record longer than asked for
chunk_data_too_long(data_list, chunk_size) == chunk_from(data_list, chunk_size + 1, 0)

\* list(chunk_data(data_list, chunk_size))
chunk_data(data_list, chunk_size) == chunk_from(data_list, chunk_size, 0)

(***************************************************************************)
(* What the database and the network can answer                            *)
(***************************************************************************)
\* a table of n records; the record at position i holds a scalar of kind KindAt(i)
KindAt(i) == CASE i % 3 = 1 -> "str" [] i % 3 = 2 -> "Decimal" [] OTHER -> "date"

Rows(n) == [i \in 1..n |-> KindAt(i)]

RowCounts ==
    {0, 1} \cup {c * BATCH_SIZE : c \in 1..(MaxChunks - 1)}
           \cup {c * BATCH_SIZE + 1 : c \in 1..(MaxChunks - 1)}

\* what a table's query can return: rows the encoder handles, or one row
\* holding a scalar it does not handle
QueryResults == {Rows(n) : n \in RowCounts} \cup {<<"bytes">>}

\* load_config: the file opens and parses and holds both keys, or one of the
\* three failures it handles
ConfigOutcomes == {"ok", "FileNotFoundError", "JSONDecodeError", "ValueError"}

\* a config.json holding both keys: load_config looks for the keys 'dsn' and
\* 'api_url' and at nothing else, so each value may be usable or not
ConfigFiles == {[dsn |-> d, api_url |-> u] : d \in {"valid", "invalid"}, u \in {"valid", "invalid"}}

\* main before load_config has returned
NoConfig == [dsn |-> "", api_url |-> ""]

ConnectOutcomes == {"ok", "pyodbc.Error"}

QueryOutcomes == {"ok", "pyodbc.Error"}

\* requests.post either raises or returns a response with a status and a body;
\* is_json: response.json() parses; success: the body's success flag;
\* results_ok: the body's per-table results can be listed
Raised(exc) == [kind |-> exc, status |-> 0, is_json |-> FALSE, success |-> FALSE, results_ok |-> FALSE]

Http(status, is_json, success, results_ok) ==
    [kind |-> "http", status |-> status, is_json |-> is_json, success |-> success, results_ok |-> results_ok]

ResetResponses == {Raised("ConnectionError"), Http(200, TRUE, TRUE, TRUE), Http(500, FALSE, FALSE, FALSE)}

BulkResponses ==
    {Raised("Timeout"), Raised("ConnectionError"),
     Http(200, TRUE, TRUE, TRUE), Http(200, TRUE, TRUE, FALSE),
     Http(200, TRUE, FALSE, TRUE), Http(200, FALSE, FALSE, FALSE),
     Http(201, TRUE, TRUE, TRUE), Http(500, FALSE, FALSE, FALSE)}

LegacyResponses ==
    {Raised("ConnectionError"),
     Http(200, TRUE, TRUE, TRUE), Http(200, TRUE, FALSE, TRUE), Http(200, FALSE, FALSE, FALSE),
     Http(503, FALSE, FALSE, FALSE)}

NoResponse == Raised("None")

\* requests.post on a URL built from an api_url that is no URL raises before
\* anything is sent; on a valid one the answer is any of responses
Answers(api_url, responses) ==
    IF api_url = "invalid" THEN {Raised("InvalidURL")} ELSE responses

(***************************************************************************)
(* State                                                                   *)
(***************************************************************************)
VARIABLES
    pc,             \* where main() and the function it is in have got to
    data,           \* fetch_data_parallel: table name -> list of records
    total_records,  \* sync_data_bulk_optimized: total_records
    payload,        \* sync_data_bulk_optimized: payload
    json_data,      \* sync_data_bulk_optimized: json_data
    timeout,        \* sync_data_bulk_optimized: timeout
    bulk_response,  \* sync_data_bulk_optimized: response, or the exception raised instead
    success,        \* main: success
    table_index,    \* sync_data_to_api_legacy: table_index
    chunks,         \* sync_data_to_api_legacy: chunks
    chunk_index,    \* sync_data_to_api_legacy: chunk_index
    batch_payload,  \* sync_data_to_api_legacy: payload
    batch_success,  \* sync_data_to_api_legacy: success
    retry,          \* sync_data_to_api_legacy: retry
    response,       \* sync_data_to_api_legacy: the response being handled
    exit_code,      \* the status the process exits with
    reset_posts,    \* requests sent to /api/reset-sync-session/
    bulk_posts,     \* requests sent to /api/bulk-sync/
    legacy_posts,   \* requests sent to /api/sync/
    bulk_calls,     \* calls of sync_data_bulk_optimized
    legacy_calls,   \* calls of sync_data_to_api_legacy
    bulk_result,    \* what sync_data_bulk_optimized returned
    attempts,       \* attempts made for the current batch
    acked,          \* the batches the server answered with 200 and success
    failed_attempts,\* attempts of the current batch that did not end in 200 and success
    call,           \* a call of chunk_data on its own: arguments and result
    config,         \* main: config, by what load_config found in config.json
    conn,           \* main: conn, the database connection
    query_failed,   \* some table's query has raised pyodbc.Error (logged, not returned)
    reset_response, \* reset_sync_session: response, or the exception raised instead
    bulk_acked,     \* the server answered the bulk request with 200 and success
    pause           \* the seconds of the time.sleep the retry loop is in, 0 outside one

vars == <<pc, data, total_records, payload, json_data, timeout, bulk_response,
          success, table_index, chunks, chunk_index, batch_payload, batch_success,
          retry, response, exit_code, reset_posts, bulk_posts, legacy_posts,
          bulk_calls, legacy_calls, bulk_result, attempts, acked, failed_attempts, call,
          config, conn, query_failed, reset_response, bulk_acked, pause>>

run_state == <<config, conn, query_failed, reset_response>>

bulk_locals == <<total_records, payload, json_data, timeout>>

legacy_locals == <<table_index, chunks, chunk_index, batch_payload, batch_success, retry, response>>

counters == <<reset_posts, bulk_posts, legacy_posts, bulk_calls, legacy_calls>>

batch_history == <<attempts, acked, failed_attempts>>

NoCall == [data_list |-> <<>>, chunk_size |-> 1, result |-> <<>>, returned |-> FALSE]

history == <<bulk_response, bulk_result, bulk_acked, batch_history>>

EmptyDict == [t \in {} |-> <<>>]

\* the locals of a function that has not built them yet, or has returned
NoPayload == [database |-> "", tables |-> EmptyDict, total_records |-> 0]

NoBatch == [database |-> "", table |-> "", data |-> <<>>, is_first_batch |-> FALSE, is_last_batch |-> FALSE]

\* the process is still running
NotExited == -1

Init ==
    /\ pc = "load_config"
    /\ data = EmptyDict
    /\ total_records = 0
    /\ payload = NoPayload
    /\ json_data = NoPayload
    /\ timeout = 0
    /\ bulk_response = NoResponse
    /\ success = FALSE
    /\ table_index = 0
    /\ chunks = <<>>
    /\ chunk_index = 0
    /\ batch_payload = NoBatch
    /\ batch_success = FALSE
    /\ retry = 0
    /\ response = NoResponse
    /\ exit_code = NotExited
    /\ reset_posts = 0
    /\ bulk_posts = 0
    /\ legacy_posts = 0
    /\ bulk_calls = 0
    /\ legacy_calls = 0
    /\ bulk_result = "None"
    /\ attempts = 0
    /\ acked = {}
    /\ failed_attempts = 0
    /\ call = NoCall
    /\ config = NoConfig
    /\ conn = "None"
    /\ query_failed = FALSE
    /\ reset_response = NoResponse
    /\ bulk_acked = FALSE
    /\ pause = 0

(***************************************************************************)
(* main: configuration, connection, extraction                             *)
(***************************************************************************)
\* load_config without its validation: whatever the file holds is returned
LoadConfigUnchecked ==
    /\ pc = "load_config"
    /\ \E outcome \in ConfigOutcomes :
          IF outcome = "ok"
          THEN \E c \in ConfigFiles : config' = c
          ELSE config' = NoConfig
    /\ pc' = "connect"
    /\ UNCHANGED <<call, pause, conn, query_failed, reset_response, data, bulk_locals, success,
                   legacy_locals, exit_code, counters, history>>

\* load_config: the file's content when it parses and holds both keys; any
\* failure is reported, then input("Press Enter to exit...") and sys.exit(1)
LoadConfig ==
    /\ pc = "load_config"
    /\ \E outcome \in ConfigOutcomes :
          IF outcome = "ok"
          THEN pc' = "connect" /\ \E c \in ConfigFiles : config' = c
          ELSE pc' = "prompt" /\ UNCHANGED config
    /\ UNCHANGED <<call, pause, conn, query_failed, reset_response, data, bulk_locals, success,
                   legacy_locals, exit_code, counters, history>>

\* connect_to_database: pyodbc.connect on the configured dsn; pyodbc.Error is
\* reported, then input("Press Enter to exit...") and sys.exit(1)
ConnectToDatabase ==
    /\ pc = "connect"
    /\ \E outcome \in (IF config.dsn = "valid" THEN ConnectOutcomes ELSE {"pyodbc.Error"}) :
          IF outcome = "ok"
          THEN pc' = "fetch" /\ conn' = "open"
          ELSE pc' = "prompt" /\ UNCHANGED conn
    /\ UNCHANGED <<call, pause, config, query_failed, reset_response, data, bulk_locals, success,
                   legacy_locals, exit_code, counters, history>>

\* the rows fetched before the query raised are returned
execute_query_partial(outcome, rows) == rows

\* execute_query_with_progress: the rows, or [] when the query raises pyodbc.Error
execute_query_with_progress(outcome, rows) == IF outcome = "ok" THEN rows ELSE <<>>

\* fetch_data_parallel: one turn of the loop over tables
FetchTable ==
    /\ pc = "fetch"
    /\ Cardinality(DOMAIN data) < Len(tables)
    /\ LET table_name == tables[Cardinality(DOMAIN data) + 1]
       IN  \E outcome \in QueryOutcomes, rows \in QueryResults :
              LET results == execute_query_with_progress(outcome, rows)
              IN  /\ SumLen(data, DOMAIN data) + Len(results) <= MaxTotalRecords
                  /\ data' = (table_name :> results) @@ data
                  /\ query_failed' = (query_failed \/ outcome # "ok")
    /\ UNCHANGED <<call, pause, config, conn, reset_response, pc, bulk_locals, success, legacy_locals,
                   exit_code, counters, history>>

\* fetch_data_parallel returns; main closes the connection and calls
\* sync_data_bulk_optimized
CloseConnection ==
    /\ pc = "fetch"
    /\ Cardinality(DOMAIN data) = Len(tables)
    /\ conn' = "closed"
    /\ pc' = "bulk_start"
    /\ bulk_calls' = bulk_calls + 1
    /\ UNCHANGED <<call, pause, config, query_failed, reset_response, data, bulk_locals, success, legacy_locals, exit_code,
                   reset_posts, bulk_posts, legacy_posts, legacy_calls, history>>

(***************************************************************************)
(* reset_sync_session and sync_data_bulk_optimized                         *)
(***************************************************************************)
\* reset_sync_session: True on status 200, False on any other status or exception
reset_sync_session(r) == r.kind = "http" /\ r.status = HTTP_OK

\* sync_data_bulk_optimized without its reset of the session
BulkResetSkipped ==
    /\ pc = "bulk_start"
    /\ pc' = "bulk_payload"
    /\ UNCHANGED <<call, pause, run_state, data, bulk_locals, success, legacy_locals, exit_code,
                   counters, history>>

\* sync_data_bulk_optimized resets the session; the result is not used
BulkReset ==
    /\ pc = "bulk_start"
    /\ \E r \in Answers(config.api_url, ResetResponses) :
          /\ reset_sync_session(r) \in BOOLEAN
          /\ reset_response' = r
          /\ reset_posts' = reset_posts + 1
    /\ pc' = "bulk_payload"
    /\ UNCHANGED <<call, pause, config, conn, query_failed, data, bulk_locals, success, legacy_locals, exit_code,
                   bulk_posts, legacy_posts, bulk_calls, legacy_calls, history>>

\* json.dumps(d, cls=DecimalEncoder) of a dict holding a table mapping
json_dumps_payload(p) ==
    [database |-> p.database,
     tables |-> [t \in DOMAIN p.tables |-> EncodeList(p.tables[t])],
     total_records |-> p.total_records]

\* json.dumps raises TypeError on a scalar the encoder does not handle
PayloadEncodable(p) == \A t \in DOMAIN p.tables : ListEncodable(p.tables[t])

\* the number of tables instead of the number of records
bulk_total_records_tables(d) == Cardinality(DOMAIN d)

\* total_records = sum(len(table_data) for table_data in data.values())
bulk_total_records(d) == SumLen(d, DOMAIN d)

\* payload = {"database": ..., "tables": data, "total_records": total_records, ...}
bulk_payload(d, total) == [database |-> target_database, tables |-> d, total_records |-> total]

\* the floor with ten added for every full thousand of records
bulk_timeout_sum(total) == MIN_TIMEOUT + (total \div 1000) * 10

\* timeout = max(300, total_records // 1000 * 10)
bulk_timeout(total) == Max(MIN_TIMEOUT, (total \div 1000) * 10)

\* the bulk attempt given up when the session could not be reset
BulkBuildPayloadResetRequired ==
    /\ pc = "bulk_payload"
    /\ reset_response' = NoResponse
    /\ IF reset_sync_session(reset_response)
       THEN /\ total_records' = bulk_total_records(data)
            /\ payload' = bulk_payload(data, total_records')
            /\ pc' = "bulk_serialize"
            /\ UNCHANGED bulk_result
       ELSE /\ bulk_result' = "False"
            /\ pc' = "bulk_return"
            /\ UNCHANGED <<total_records, payload>>
    /\ UNCHANGED <<call, pause, config, conn, query_failed, data, json_data, timeout, success,
                   legacy_locals, exit_code, counters, bulk_response, bulk_acked, batch_history>>

\* total_records and payload are built; reset_sync_session's locals are gone
BulkBuildPayload ==
    /\ pc = "bulk_payload"
    /\ total_records' = bulk_total_records(data)
    /\ payload' = bulk_payload(data, total_records')
    /\ reset_response' = NoResponse
    /\ pc' = "bulk_serialize"
    /\ UNCHANGED <<call, pause, config, conn, query_failed, data, json_data, timeout, success, legacy_locals, exit_code, counters, history>>

\* sync_data_bulk_optimized returns value
BulkReturn(value) ==
    /\ bulk_result' = (IF value THEN "True" ELSE "False")
    /\ pc' = "bulk_return"

\* json_data = json.dumps(payload); a TypeError reaches the outer handler, which returns False
BulkSerialize ==
    /\ pc = "bulk_serialize"
    /\ IF PayloadEncodable(payload)
       THEN /\ json_data' = json_dumps_payload(payload)
            /\ timeout' = bulk_timeout(total_records)
            /\ pc' = "bulk_post"
            /\ UNCHANGED bulk_result
       ELSE BulkReturn(FALSE) /\ UNCHANGED <<json_data, timeout>>
    /\ UNCHANGED <<call, pause, run_state, data, total_records, payload, success, legacy_locals,
                   exit_code, counters, bulk_response, bulk_acked, batch_history>>

\* requests.post(bulk_sync_endpoint, ...) returns or raises
BulkPost ==
    /\ pc = "bulk_post"
    /\ \E r \in Answers(config.api_url, BulkResponses) : bulk_response' = r
    /\ bulk_posts' = bulk_posts + 1
    /\ pc' = "bulk_handle"
    /\ UNCHANGED <<call, pause, run_state, data, bulk_locals, success, legacy_locals, exit_code,
                   reset_posts, legacy_posts, bulk_calls, legacy_calls,
                   bulk_result, bulk_acked, batch_history>>

\* what the code after requests.post makes of the response: True only for
\* status 200 with a JSON body whose success flag is set and whose results
\* can be listed (an exception while listing them reaches the outer handler)
bulk_response_ok(r) ==
    IF r.kind # "http" THEN FALSE
    ELSE IF r.status = HTTP_OK
         THEN IF ~r.is_json THEN FALSE
              ELSE IF r.success THEN r.results_ok
                   ELSE FALSE
         ELSE FALSE

\* the server took the request: it answered 200 with the success flag set
ServerAcked(r) == r.kind = "http" /\ r.status = 200 /\ r.is_json /\ r.success

\* the response is handled and sync_data_bulk_optimized returns
BulkHandle ==
    /\ pc = "bulk_handle"
    /\ BulkReturn(bulk_response_ok(bulk_response))
    /\ bulk_acked' = ServerAcked(bulk_response)
    /\ UNCHANGED <<call, pause, run_state, data, bulk_locals, success, legacy_locals, exit_code, counters, bulk_response, batch_history>>

\* main without the fallback: the verdict follows the bulk attempt at once
AfterBulkNoFallback ==
    /\ pc = "bulk_return"
    /\ success' = (bulk_result = "True")
    /\ pc' = "verdict"
    /\ total_records' = 0
    /\ payload' = NoPayload
    /\ json_data' = NoPayload
    /\ timeout' = 0
    /\ bulk_response' = NoResponse
    /\ UNCHANGED <<call, pause, run_state, data, legacy_locals, exit_code, counters, bulk_result, bulk_acked, batch_history>>

\* main calling sync_data_bulk_optimized a second time after its failure
AfterBulkRetryOnce ==
    /\ pc = "bulk_return"
    /\ success' = (bulk_result = "True")
    /\ pc' = (IF success' THEN "verdict"
              ELSE IF bulk_calls < 2 THEN "bulk_start" ELSE "legacy_start")
    /\ total_records' = 0
    /\ payload' = NoPayload
    /\ json_data' = NoPayload
    /\ timeout' = 0
    /\ bulk_response' = NoResponse
    /\ bulk_calls' = (IF ~success' /\ bulk_calls < 2 THEN bulk_calls + 1 ELSE bulk_calls)
    /\ legacy_calls' = (IF ~success' /\ bulk_calls >= 2 THEN legacy_calls + 1 ELSE legacy_calls)
    /\ UNCHANGED <<call, pause, run_state, data, legacy_locals, exit_code,
                   reset_posts, bulk_posts, legacy_posts, bulk_result, bulk_acked, batch_history>>

\* main: success = sync_data_bulk_optimized(data, config), whose locals are
\* gone; if not success, fall back to sync_data_to_api_legacy
AfterBulk ==
    /\ pc = "bulk_return"
    /\ success' = (bulk_result = "True")
    /\ pc' = (IF ~success' THEN "legacy_start" ELSE "verdict")
    /\ total_records' = 0
    /\ payload' = NoPayload
    /\ json_data' = NoPayload
    /\ timeout' = 0
    /\ bulk_response' = NoResponse
    /\ legacy_calls' = (IF ~success' THEN legacy_calls + 1 ELSE legacy_calls)
    /\ UNCHANGED <<call, pause, run_state, data, legacy_locals, exit_code,
                   reset_posts, bulk_posts, legacy_posts, bulk_calls, bulk_result, bulk_acked, batch_history>>

(***************************************************************************)
(* sync_data_to_api_legacy                                                 *)
(***************************************************************************)
\* sync_data_to_api_legacy relying on the reset the bulk attempt made
LegacyResetSkipped ==
    /\ pc = "legacy_start"
    /\ table_index' = 1
    /\ pc' = "legacy_table"
    /\ UNCHANGED <<call, pause, run_state, data, bulk_locals, success, chunks, chunk_index, batch_payload,
                   batch_success, retry, response, exit_code, counters, history>>

\* sync_data_to_api_legacy resets the session; the result is not used
LegacyReset ==
    /\ pc = "legacy_start"
    /\ \E r \in Answers(config.api_url, ResetResponses) :
          /\ reset_sync_session(r) \in BOOLEAN
          /\ reset_response' = r
          /\ reset_posts' = reset_posts + 1
    /\ table_index' = 1
    /\ pc' = "legacy_table"
    /\ UNCHANGED <<call, pause, config, conn, query_failed, data, bulk_locals, success, chunks, chunk_index, batch_payload,
                   batch_success, retry, response, exit_code,
                   bulk_posts, legacy_posts, bulk_calls, legacy_calls, history>>

\* the value sync_data_to_api_legacy returns to main
LegacyReturn(value) ==
    /\ success' = value
    /\ pc' = "verdict"

\* an empty table taken for a failure of the transfer
LegacyTableEmptyFails ==
    /\ pc = "legacy_table"
    /\ reset_response' = NoResponse
    /\ IF table_index > Len(tables_to_sync)
       THEN /\ LegacyReturn(TRUE)
            /\ UNCHANGED <<table_index, chunks, chunk_index>>
       ELSE LET table_name == tables_to_sync[table_index]
            IN  IF table_name \in DOMAIN data /\ data[table_name] # <<>>
                THEN /\ chunks' = chunk_data(data[table_name], BATCH_SIZE)
                     /\ chunk_index' = 1
                     /\ pc' = "legacy_chunk"
                     /\ UNCHANGED <<table_index, success>>
                ELSE /\ LegacyReturn(FALSE)
                     /\ UNCHANGED <<table_index, chunks, chunk_index>>
    /\ UNCHANGED <<call, pause, config, conn, query_failed, data, bulk_locals, batch_payload,
                   batch_success, retry, response, exit_code, counters, history>>

\* for table_index, table_name in enumerate(tables_to_sync, 1): a table that is
\* missing or empty is passed over, any other is cut into chunks; after the
\* last table the function returns True; reset_sync_session's locals are gone
LegacyTable ==
    /\ pc = "legacy_table"
    /\ reset_response' = NoResponse
    /\ IF table_index > Len(tables_to_sync)
       THEN /\ LegacyReturn(TRUE)
            /\ UNCHANGED <<table_index, chunks, chunk_index>>
       ELSE LET table_name == tables_to_sync[table_index]
            IN  IF table_name \in DOMAIN data /\ data[table_name] # <<>>
                THEN /\ chunks' = chunk_data(data[table_name], BATCH_SIZE)
                     /\ chunk_index' = 1
                     /\ pc' = "legacy_chunk"
                     /\ UNCHANGED <<table_index, success>>
                ELSE /\ table_index' = table_index + 1
                     /\ UNCHANGED <<pc, chunks, chunk_index, success>>
    /\ UNCHANGED <<call, pause, config, conn, query_failed, data, bulk_locals, batch_payload,
                   batch_success, retry, response, exit_code, counters, history>>

\* is_last_batch set one batch early
legacy_payload_last_early(table_name, chunk_list, index) ==
    [database |-> target_database,
     table |-> table_name,
     data |-> chunk_list[index],
     is_first_batch |-> (index = 1),
     is_last_batch |-> (index = Len(chunk_list) - 1)]

\* payload = {"database": ..., "table": ..., "data": chunk, "is_first_batch": ..., "is_last_batch": ...}
legacy_payload(table_name, chunk_list, index) ==
    [database |-> target_database,
     table |-> table_name,
     data |-> chunk_list[index],
     is_first_batch |-> (index = 1),
     is_last_batch |-> (index = Len(chunk_list))]

\* for chunk_index, chunk in enumerate(chunks, 1): the batch's payload is built
\* and its retry loop entered; after the last chunk the next table is taken
LegacyChunk ==
    /\ pc = "legacy_chunk"
    /\ IF chunk_index > Len(chunks)
       THEN /\ table_index' = table_index + 1
            /\ pc' = "legacy_table"
            /\ UNCHANGED <<chunk_index, batch_payload, batch_success, retry, attempts, failed_attempts>>
       ELSE /\ batch_payload' = legacy_payload(tables_to_sync[table_index], chunks, chunk_index)
            /\ batch_success' = FALSE
            /\ retry' = 0
            /\ attempts' = 0
            /\ failed_attempts' = 0
            /\ pc' = "legacy_attempt"
            /\ UNCHANGED <<table_index, chunk_index>>
    /\ UNCHANGED <<call, pause, run_state, data, bulk_locals, success, chunks, response, exit_code, counters,
                   bulk_response, bulk_result, bulk_acked, acked>>

\* a retry loop of four turns
NextRetryFour ==
    IF retry + 1 < MAX_RETRIES + 1
    THEN retry' = retry + 1 /\ pc' = "legacy_attempt"
    ELSE retry' = retry /\ pc' = "legacy_after"

\* for retry in range(3): the next turn of the loop, or its end
NextRetry ==
    IF retry + 1 < MAX_RETRIES
    THEN retry' = retry + 1 /\ pc' = "legacy_attempt"
    ELSE retry' = retry /\ pc' = "legacy_after"

\* one attempt: json.dumps(payload) and requests.post(sync_endpoint, ...);
\* a TypeError from json.dumps is caught like any exception of the attempt
LegacyAttempt ==
    /\ pc = "legacy_attempt"
    /\ attempts' = attempts + 1
    /\ IF ListEncodable(batch_payload.data)
       THEN /\ \E r \in Answers(config.api_url, LegacyResponses) : response' = r
            /\ legacy_posts' = legacy_posts + 1
            /\ pc' = "legacy_handle"
            /\ UNCHANGED <<failed_attempts, pause>>
       ELSE /\ failed_attempts' = failed_attempts + 1
            /\ pc' = "legacy_sleep"
            /\ pause' = RETRY_PAUSE
            /\ UNCHANGED <<legacy_posts, response>>
    /\ UNCHANGED <<call, run_state, data, bulk_locals, success, table_index, chunks, chunk_index,
                   batch_payload, batch_success, retry, exit_code,
                   reset_posts, bulk_posts, bulk_calls, legacy_calls,
                   bulk_response, bulk_result, bulk_acked, acked>>

\* any JSON body with status 200 taken for success
legacy_response_ok_any_body(r) == r.kind = "http" /\ r.status = HTTP_OK /\ r.is_json

\* the attempt succeeded: status 200 and a JSON body whose success flag is set
legacy_response_ok(r) == r.kind = "http" /\ r.status = HTTP_OK /\ r.is_json /\ r.success

\* every attempt that did not succeed followed by time.sleep(2)
legacy_response_sleeps_always(r) == TRUE

\* the attempt is followed by time.sleep(2): the status is not 200, or an
\* exception was raised by requests.post or by response.json()
legacy_response_sleeps(r) ==
    \/ r.kind # "http"
    \/ r.status # HTTP_OK
    \/ r.status = HTTP_OK /\ ~r.is_json

\* a rejected batch given up at once
AfterFailedAttemptAbort(r) ==
    IF legacy_response_sleeps(r)
    THEN pc' = "legacy_sleep" /\ pause' = RETRY_PAUSE /\ UNCHANGED retry
    ELSE pc' = "legacy_after" /\ UNCHANGED <<retry, pause>>

\* what follows an attempt that did not succeed: time.sleep(2) where the code
\* sleeps, else the next turn of the retry loop at once
AfterFailedAttempt(r) ==
    IF legacy_response_sleeps(r)
    THEN pc' = "legacy_sleep" /\ pause' = RETRY_PAUSE /\ UNCHANGED retry
    ELSE NextRetry /\ UNCHANGED pause

\* the response of an attempt is handled: success ends the retry loop, any
\* other response goes on to the next turn
LegacyHandle ==
    /\ pc = "legacy_handle"
    /\ IF legacy_response_ok(response)
       THEN /\ batch_success' = TRUE
            /\ pc' = "legacy_after"
            /\ UNCHANGED <<retry, pause>>
       ELSE /\ AfterFailedAttempt(response)
            /\ UNCHANGED batch_success
    /\ IF ServerAcked(response)
       THEN /\ acked' = acked \cup {<<tables_to_sync[table_index], chunk_index>>}
            /\ UNCHANGED failed_attempts
       ELSE /\ failed_attempts' = failed_attempts + 1
            /\ UNCHANGED acked
    /\ response' = NoResponse
    /\ UNCHANGED <<call, run_state, data, bulk_locals, success, table_index, chunks, chunk_index,
                   batch_payload, exit_code, counters,
                   bulk_response, bulk_result, bulk_acked, attempts>>

\* time.sleep(2) ends, then the next turn of the retry loop
LegacySleep ==
    /\ pc = "legacy_sleep"
    /\ NextRetry
    /\ pause' = 0
    /\ UNCHANGED <<call, run_state, data, bulk_locals, success, table_index, chunks, chunk_index,
                   batch_payload, batch_success, response, exit_code, counters, history>>

\* a failed batch passed over and the next chunk taken
LegacyAfterRetriesBestEffort ==
    /\ pc = "legacy_after"
    /\ chunk_index' = chunk_index + 1
    /\ pc' = "legacy_chunk"
    /\ UNCHANGED <<call, pause, run_state, data, bulk_locals, success, table_index, chunks, batch_payload,
                   batch_success, retry, response, exit_code, counters, history>>

\* after the retry loop: if not success, return False; else the next chunk
LegacyAfterRetries ==
    /\ pc = "legacy_after"
    /\ IF ~batch_success
       THEN /\ LegacyReturn(FALSE)
            /\ UNCHANGED chunk_index
       ELSE /\ chunk_index' = chunk_index + 1
            /\ pc' = "legacy_chunk"
            /\ UNCHANGED success
    /\ UNCHANGED <<call, pause, run_state, data, bulk_locals, table_index, chunks, batch_payload, batch_success,
                   retry, response, exit_code, counters, history>>

(***************************************************************************)
(* main: the verdict                                                       *)
(***************************************************************************)
\* if success: the success report, the countdown and sys.exit(0); else: the
\* failure report and input("Press Enter to close...")
Verdict ==
    /\ pc = "verdict"
    /\ IF success
       THEN exit_code' = 0 /\ pc' = "exit"
       ELSE pc' = "prompt" /\ UNCHANGED exit_code
    /\ UNCHANGED <<call, pause, run_state, data, bulk_locals, success, legacy_locals, counters, history>>

\* the input(...) a failure waits at returns, or raises at the end of the
\* input; either way the process exits with status 1
PressEnter ==
    /\ pc = "prompt"
    /\ exit_code' = 1
    /\ pc' = "exit"
    /\ UNCHANGED <<call, pause, run_state, data, bulk_locals, success, legacy_locals, counters, history>>

Next ==
    \/ LoadConfig
    \/ ConnectToDatabase
    \/ FetchTable
    \/ CloseConnection
    \/ BulkReset
    \/ BulkBuildPayload
    \/ BulkSerialize
    \/ BulkPost
    \/ BulkHandle
    \/ AfterBulk
    \/ LegacyReset
    \/ LegacyTable
    \/ LegacyChunk
    \/ LegacyAttempt
    \/ LegacyHandle
    \/ LegacySleep
    \/ LegacyAfterRetries
    \/ Verdict
    \/ PressEnter

Spec == Init /\ [][Next]_vars

\* the steps the program takes by itself once its calls return; PressEnter is
\* the operator's
ProgramStep ==
    \/ LoadConfig
    \/ ConnectToDatabase
    \/ FetchTable
    \/ CloseConnection
    \/ BulkReset
    \/ BulkBuildPayload
    \/ BulkSerialize
    \/ BulkPost
    \/ BulkHandle
    \/ AfterBulk
    \/ LegacyReset
    \/ LegacyTable
    \/ LegacyChunk
    \/ LegacyAttempt
    \/ LegacyHandle
    \/ LegacySleep
    \/ LegacyAfterRetries
    \/ Verdict

\* every database and network call returns (each has a timeout) and every
\* sleep ends, so the program never stops short of a prompt or its exit
FairSpec == Spec /\ WF_vars(ProgramStep)

(***************************************************************************)
(* chunk_data on its own: every list of at most MaxLen records, every      *)
(* chunk size from 1 to MaxChunkSize                                       *)
(***************************************************************************)
RECURSIVE ListsUpTo(_)
ListsUpTo(n) ==
    IF n = 0 THEN {<<>>}
    ELSE LET shorter == ListsUpTo(n - 1)
         IN  shorter \cup {Append(l, k) : l \in {x \in shorter : Len(x) = n - 1}, k \in ScalarKinds}

InitChunk ==
    /\ pc = "chunk_call"
    /\ data = EmptyDict
    /\ total_records = 0
    /\ payload = NoPayload
    /\ json_data = NoPayload
    /\ timeout = 0
    /\ bulk_response = NoResponse
    /\ success = FALSE
    /\ table_index = 0
    /\ chunks = <<>>
    /\ chunk_index = 0
    /\ batch_payload = NoBatch
    /\ batch_success = FALSE
    /\ retry = 0
    /\ response = NoResponse
    /\ exit_code = NotExited
    /\ reset_posts = 0
    /\ bulk_posts = 0
    /\ legacy_posts = 0
    /\ bulk_calls = 0
    /\ legacy_calls = 0
    /\ bulk_result = "None"
    /\ attempts = 0
    /\ acked = {}
    /\ failed_attempts = 0
    /\ config = NoConfig
    /\ conn = "None"
    /\ query_failed = FALSE
    /\ reset_response = NoResponse
    /\ bulk_acked = FALSE
    /\ pause = 0
    /\ \E l \in ListsUpTo(MaxLen), size \in 1..MaxChunkSize :
          call = [data_list |-> l, chunk_size |-> size, result |-> <<>>, returned |-> FALSE]

\* chunks = list(chunk_data(data_list, chunk_size))
ChunkCall ==
    /\ pc = "chunk_call"
    /\ call' = [call EXCEPT !.result = chunk_data(call.data_list, call.chunk_size),
                            !.returned = TRUE]
    /\ pc' = "chunk_done"
    /\ UNCHANGED <<pause, run_state, data, bulk_locals, success, legacy_locals, exit_code, counters, history>>

NextChunk == ChunkCall

SpecChunk == InitChunk /\ [][NextChunk]_vars

(***************************************************************************)
(* The bulk timeout on its own: totals up to MaxTimeoutRecords, at and     *)
(* around every full thousand                                              *)
(***************************************************************************)
TimeoutTotals == {n \in 0..MaxTimeoutRecords : n % 1000 \in {0, 1, 500, 999}}

InitTimeout ==
    /\ pc = "timeout_call"
    /\ data = EmptyDict
    /\ total_records \in TimeoutTotals
    /\ payload = NoPayload
    /\ json_data = NoPayload
    /\ timeout = 0
    /\ bulk_response = NoResponse
    /\ success = FALSE
    /\ table_index = 0
    /\ chunks = <<>>
    /\ chunk_index = 0
    /\ batch_payload = NoBatch
    /\ batch_success = FALSE
    /\ retry = 0
    /\ response = NoResponse
    /\ exit_code = NotExited
    /\ reset_posts = 0
    /\ bulk_posts = 0
    /\ legacy_posts = 0
    /\ bulk_calls = 0
    /\ legacy_calls = 0
    /\ bulk_result = "None"
    /\ attempts = 0
    /\ acked = {}
    /\ failed_attempts = 0
    /\ call = NoCall
    /\ config = NoConfig
    /\ conn = "None"
    /\ query_failed = FALSE
    /\ reset_response = NoResponse
    /\ bulk_acked = FALSE
    /\ pause = 0

\* timeout = max(300, total_records // 1000 * 10)
TimeoutCall ==
    /\ pc = "timeout_call"
    /\ timeout' = bulk_timeout(total_records)
    /\ pc' = "timeout_done"
    /\ UNCHANGED <<call, pause, run_state, data, total_records, payload, json_data, success,
                   legacy_locals, exit_code, counters, history>>

NextTimeout == TimeoutCall

SpecTimeout == InitTimeout /\ [][NextTimeout]_vars

(***************************************************************************)
(* Properties                                                              *)
(***************************************************************************)
\* the bulk request was sent and ended in a transport error, a status
\* outside 200..299, or a body whose success flag is false
BulkEndedInFailure ==
    /\ pc = "bulk_return"
    /\ bulk_posts = 1
    /\ \/ bulk_response.kind # "http"
       \/ bulk_response.status \notin 200..299
       \/ bulk_response.is_json /\ ~bulk_response.success

\* C1: whenever the bulk request ends in a transport error, a non-2xx status
\* or a response whose success flag is false, main's next step calls the
\* legacy path, for the first and only time in the run, and the bulk request
\* is not sent again: no run holds more than one call of the legacy path or
\* more than one POST to the bulk endpoint.
C1_BulkFailureStartsLegacyOnce ==
    /\ [][BulkEndedInFailure =>
            (pc' = "legacy_start" /\ legacy_calls' = 1 /\ bulk_posts' = 1)]_vars
    /\ [](legacy_calls <= 1 /\ bulk_posts <= 1 /\ bulk_calls <= 1)

\* a finished run whose bulk request failed and whose legacy path ran
C1_Witness ==
    /\ pc = "exit"
    /\ bulk_posts = 1
    /\ bulk_result = "False"
    /\ legacy_calls = 1
    /\ legacy_posts > 0

\* every batch of every non-empty table, as (table, position)
AllBatches ==
    UNION {{<<t, k>> : k \in 1..CeilDiv(Len(data[t]), BATCH_SIZE)} : t \in DOMAIN data}

\* C2: the run exits with status 0 if and only if the bulk attempt succeeded,
\* or the legacy attempt ran and the server acknowledged every batch of every
\* non-empty table with no batch failing all 3 of its attempts; otherwise it
\* exits with status 1.
C2_VerdictIffDelivered ==
    pc = "exit" =>
        /\ exit_code \in {0, 1}
        /\ exit_code = 0 <=>
              \/ bulk_result = "True"
              \/ /\ legacy_calls = 1
                 /\ acked = AllBatches
                 /\ failed_attempts < MAX_RETRIES

\* a run that succeeded on the legacy path, with retries on the way
C2_Witness ==
    /\ pc = "exit"
    /\ exit_code = 0
    /\ legacy_calls = 1
    /\ Cardinality(acked) >= 2
    /\ legacy_posts > Cardinality(acked)

\* the bulk endpoint answered status 200 with the success flag set
BulkAnsweredSuccess ==
    /\ pc = "bulk_return"
    /\ bulk_posts = 1
    /\ bulk_response.kind = "http"
    /\ bulk_response.status = 200
    /\ bulk_response.is_json
    /\ bulk_response.success

\* C3: if the bulk endpoint answers the bulk request with a success response
\* (success flag true), main goes to the verdict with success, the legacy path
\* is not called, and a run whose bulk attempt succeeded sends no request to
\* the legacy endpoint and exits with status 0.
C3_BulkSuccessEndsRun ==
    /\ [][BulkAnsweredSuccess =>
            (success' /\ pc' = "verdict" /\ legacy_calls' = 0)]_vars
    /\ [](bulk_result = "True" =>
            (legacy_calls = 0 /\ legacy_posts = 0 /\ (pc = "exit" => exit_code = 0)))

\* C4: the bulk attempt returns True if and only if the request was sent and
\* answered (no exception), the status is one of 200..299, and the body's
\* success flag is true.
C4_BulkSuccessIffFlag2xx ==
    pc = "bulk_return" =>
        (bulk_result = "True" <=>
            /\ bulk_posts = 1
            /\ bulk_response.kind = "http"
            /\ bulk_response.status \in 200..299
            /\ bulk_response.is_json
            /\ bulk_response.success)

\* the batch the retry loop is working on
CurrentBatch == <<tables_to_sync[table_index], chunk_index>>

\* C5: on the legacy path no batch is attempted more than 3 times, and an
\* attempt of a batch is made only while every earlier attempt of that batch
\* has failed: the batch is not acknowledged and not marked successful.
C5_AtMostThreeAttempts ==
    /\ [](attempts <= MAX_RETRIES)
    /\ [][attempts' = attempts + 1 =>
            /\ failed_attempts = attempts
            /\ ~batch_success
            /\ CurrentBatch \notin acked]_vars

\* a batch on its third attempt after two failures
C5_Witness ==
    /\ pc = "legacy_handle"
    /\ attempts = MAX_RETRIES
    /\ failed_attempts = 2

\* a batch has failed 3 attempts in a row
Exhausted == failed_attempts = MAX_RETRIES

\* C6: once a legacy batch has failed 3 attempts in a row it stays so, no
\* further request of any kind is sent, no other batch or table is taken up,
\* and the run exits with status 1.
C6_FailFast ==
    /\ [][Exhausted =>
            /\ Exhausted'
            /\ legacy_posts' = legacy_posts
            /\ bulk_posts' = bulk_posts
            /\ reset_posts' = reset_posts
            /\ chunk_index' = chunk_index
            /\ table_index' = table_index
            /\ acked' = acked]_vars
    /\ [](Exhausted => (~success /\ (pc = "exit" => exit_code = 1)))

\* a run that ended on an exhausted batch with a later batch of the same
\* table and a later non-empty table left unsent
C6_Witness ==
    /\ pc = "exit"
    /\ Exhausted
    /\ chunk_index < Len(chunks)
    /\ \E i \in (table_index + 1)..Len(tables_to_sync) : data[tables_to_sync[i]] # <<>>

\* the response being handled is status 200 with the success flag false
Rejected == pc = "legacy_handle" /\ response.kind = "http" /\ response.status = 200
            /\ response.is_json /\ ~response.success

\* C7: on the legacy path a 200 response whose success flag is false does not
\* end the batch at once: it counts as one failed attempt of the batch's 3,
\* and while attempts remain the next step is another attempt of the same batch.
C7_RejectionConsumesAttempt ==
    [][Rejected =>
          /\ failed_attempts' = failed_attempts + 1
          /\ attempts' = attempts
          /\ batch_payload' = batch_payload
          /\ chunk_index' = chunk_index
          /\ table_index' = table_index
          /\ ~batch_success'
          /\ IF attempts < MAX_RETRIES
             THEN pc' = "legacy_attempt" /\ retry' = retry + 1
             ELSE pc' = "legacy_after"]_vars

\* a rejection being handled on a batch's second attempt, after one on its first
C7_Witness ==
    /\ Rejected
    /\ attempts = 2
    /\ failed_attempts = 1
    /\ retry = 1

\* C8: for every record list R and chunk size S > 0, the batches chunk_data
\* produces, concatenated in order, are R: every record in exactly one batch,
\* at its original position, with no gap and no overlap.
C8_ChunksConcatenateToList ==
    call.returned => Concat(call.result) = call.data_list

\* a list cut into more than one batch, the last one shorter
C8_Witness ==
    /\ call.returned
    /\ Len(call.result) >= 2
    /\ Len(call.result[Len(call.result)]) < call.chunk_size

\* the tables the legacy loop has cut into chunks
InChunkLoop == pc \in {"legacy_chunk", "legacy_attempt", "legacy_handle", "legacy_sleep", "legacy_after"}

RECURSIVE SumBatches(_, _)
\* the sum over the tables of ceil(n / 3000)
SumBatches(d, keys) ==
    IF keys = {} THEN 0
    ELSE LET t == CHOOSE x \in keys : TRUE
         IN  CeilDiv(Len(d[t]), BATCH_SIZE) + SumBatches(d, keys \ {t})

\* C9: a table of n records on the legacy path is cut into ceil(n/3000)
\* batches, each but the last of exactly 3,000 records and the last of 1 to
\* 3,000; and a run whose bulk attempt failed and whose legacy attempts all
\* succeeded at once has sent exactly the sum over the tables of ceil(n/3000)
\* batch requests and exits with status 0.
C9_BatchCounts ==
    /\ InChunkLoop =>
          LET n == Len(data[tables_to_sync[table_index]])
          IN  /\ Len(chunks) = CeilDiv(n, 3000)
              /\ \A k \in 1..(Len(chunks) - 1) : Len(chunks[k]) = 3000
              /\ Len(chunks[Len(chunks)]) \in 1..3000
    /\ (pc = "exit" /\ legacy_calls = 1 /\ failed_attempts = 0
            /\ legacy_posts = Cardinality(acked)) =>
          /\ legacy_posts = SumBatches(data, DOMAIN data)
          /\ exit_code = 0

\* a run that fell back and sent a table of 3,001 records as two batches,
\* every batch taken at its first attempt
C9_Witness ==
    /\ pc = "exit"
    /\ legacy_calls = 1
    /\ legacy_posts = Cardinality(acked)
    /\ legacy_posts >= 3
    /\ \E t \in DOMAIN data : Len(data[t]) = BATCH_SIZE + 1
    /\ \E t \in DOMAIN data : Len(data[t]) = 0

\* C10: whenever the bulk payload is built, its total_records is the sum of
\* the lengths of its per-table record lists, and the same holds of the
\* encoded payload.
C10_TotalRecordsIsSum ==
    /\ pc \in {"bulk_serialize", "bulk_post", "bulk_handle", "bulk_return"} =>
          payload.total_records = SumLen(payload.tables, DOMAIN payload.tables)
    /\ pc \in {"bulk_post", "bulk_handle"} =>
          json_data.total_records = SumLen(json_data.tables, DOMAIN json_data.tables)

\* an encoded payload with an empty table and more records than tables
C10_Witness ==
    /\ pc = "bulk_post"
    /\ \E t \in DOMAIN json_data.tables : json_data.tables[t] = <<>>
    /\ json_data.total_records > Len(tables)

\* C11 as stated: the bulk request's timeout is 300 plus 10 for every full
\* 1,000 of the total record count, so it is never below 300 and grows with
\* every additional 1,000 records.
C11_TimeoutIsFloorPlusTenPerThousand ==
    pc = "timeout_done" =>
        /\ timeout = 300 + 10 * (total_records \div 1000)
        /\ timeout >= 300

\* C11: the bulk request's timeout is the larger of 300 and 10 for every full
\* 1,000 of the total record count: it is never below 300, it is exactly 300
\* for every total below 31,000, and from 30,000 records on it is 10 per full
\* 1,000 records.
C11_TimeoutIsMaxOfFloorAndTenPerThousand ==
    pc = "timeout_done" =>
        /\ timeout >= 300
        /\ total_records < 31000 => timeout = 300
        /\ total_records >= 30000 => timeout = 10 * (total_records \div 1000)

\* a total large enough for the timeout to leave the floor
C11_Witness ==
    /\ pc = "timeout_done"
    /\ total_records >= 31000
    /\ timeout > 300

\* the transfer stage is over: main has its success value
TransferOver == bulk_calls = 1 /\ pc \in {"verdict", "prompt", "exit"}

\* C12 as stated: in every run exactly one session-reset call is issued,
\* whether the run ends on the bulk path or falls back to the legacy path.
C12_ExactlyOneReset ==
    /\ reset_posts <= 1
    /\ TransferOver => reset_posts = 1

\* C12: each transfer strategy that runs issues one session-reset call at its
\* start, before its first request: a run that ends on the bulk path has
\* issued exactly one, a run that falls back to the legacy path exactly two,
\* and a run that ends before the transfer stage none.
C12_OneResetPerStrategy ==
    /\ reset_posts =
          bulk_calls + legacy_calls - (IF pc \in {"bulk_start", "legacy_start"} THEN 1 ELSE 0)
    /\ bulk_posts > 0 => reset_posts >= 1
    /\ legacy_posts > 0 => reset_posts = 2
    /\ TransferOver => reset_posts = (IF legacy_calls = 1 THEN 2 ELSE 1)
    /\ (pc = "exit" /\ bulk_calls = 0) => reset_posts = 0

\* a finished run that fell back: two resets, one before each strategy
C12_Witness ==
    /\ pc = "exit"
    /\ bulk_posts = 1
    /\ legacy_posts > 0
    /\ reset_posts = 2

\* C13: no bulk request and no legacy batch request is sent, or about to be
\* sent, before a session-reset call has been issued and has returned.
C13_ResetBeforeAnyTransfer ==
    /\ (bulk_posts > 0 \/ legacy_posts > 0) => reset_posts >= 1
    /\ pc \in {"bulk_post", "legacy_attempt"} =>
          (reset_posts >= 1 /\ reset_response = NoResponse)

\* a legacy batch request in flight after the bulk request, a reset before each
C13_Witness ==
    /\ pc = "legacy_handle"
    /\ bulk_posts = 1
    /\ legacy_posts = 1
    /\ reset_posts >= 1

\* C14: whatever a session-reset call ends in (status 200, another status, a
\* transport error), the run is not aborted and main's success value is not
\* touched: the next step is the strategy's own first step, the same in all
\* three cases, and it sends and counts nothing.
C14_ResetOutcomeIgnored ==
    [][reset_response # NoResponse =>
          /\ exit_code' = NotExited
          /\ success' = success
          /\ bulk_result' = bulk_result
          /\ counters' = counters
          /\ \/ /\ pc = "bulk_payload"
                /\ pc' = "bulk_serialize"
                /\ payload' = bulk_payload(data, bulk_total_records(data))
             \/ /\ pc = "legacy_table"
                /\ table_index = 1
                /\ IF data[tables_to_sync[1]] # <<>>
                   THEN /\ pc' = "legacy_chunk"
                        /\ chunks' = chunk_data(data[tables_to_sync[1]], BATCH_SIZE)
                        /\ table_index' = 1
                   ELSE /\ pc' = "legacy_table"
                        /\ table_index' = 2]_vars

\* the legacy path's reset answered with a status other than 200, after the
\* bulk request had been sent
C14_Witness ==
    /\ pc = "legacy_table"
    /\ reset_response.kind = "http"
    /\ reset_response.status # 200
    /\ bulk_posts = 1

\* the legacy loop is at a table that holds no records
AtEmptyTable ==
    /\ pc = "legacy_table"
    /\ table_index <= Len(tables_to_sync)
    /\ data[tables_to_sync[table_index]] = <<>>

\* C15: on the legacy path a table with no records causes no request and is
\* counted as successful: the loop passes to the next table with nothing sent
\* and nothing failed, no batch of it is ever acknowledged or waited for, and
\* the run's verdict is the one the non-empty tables give.
C15_EmptyTableSkipped ==
    /\ [][AtEmptyTable =>
            /\ pc' = "legacy_table"
            /\ table_index' = table_index + 1
            /\ counters' = counters
            /\ batch_history' = batch_history
            /\ success' = success
            /\ exit_code' = exit_code]_vars
    /\ [](\A b \in acked : data[b[1]] # <<>>)
    /\ []((pc = "exit" /\ legacy_calls = 1) =>
            (exit_code = 0 <=>
                \A t \in {x \in DOMAIN data : data[x] # <<>>} :
                    \A k \in 1..CeilDiv(Len(data[t]), BATCH_SIZE) : <<t, k>> \in acked))

\* a legacy run that succeeded, with an empty table before a non-empty one
C15_Witness ==
    /\ pc = "exit"
    /\ exit_code = 0
    /\ legacy_calls = 1
    /\ data["mag_subject"] = <<>>
    /\ <<"cce_entry", 1>> \in acked

\* C16: when a table's query fails, the table is given an empty record list,
\* the extraction goes on with the next table in order, and the run goes on
\* to the transfer stage with all five tables instead of aborting.
C16_FailedExtractionIsEmpty ==
    /\ [][(query_failed' /\ ~query_failed) =>
            /\ data' = (tables[Cardinality(DOMAIN data) + 1] :> <<>>) @@ data
            /\ pc' = "fetch"
            /\ exit_code' = NotExited]_vars
    /\ [][pc = "fetch" =>
            /\ pc' \in {"fetch", "bulk_start"}
            /\ pc' = "fetch" =>
                  DOMAIN data' = {tables[i] : i \in 1..(Cardinality(DOMAIN data) + 1)}
            /\ pc' = "bulk_start" =>
                  (data' = data /\ DOMAIN data = {tables[i] : i \in 1..Len(tables)})]_vars

\* the transfer stage reached after the first table's query failed and a
\* later table was extracted
C16_Witness ==
    /\ pc = "bulk_start"
    /\ query_failed
    /\ data[tables[1]] = <<>>
    /\ data[tables[Len(tables)]] # <<>>

\* C17: a run in which some table's extraction failed does not end with
\* overall success.
C17_ExtractionFailureFailsRun ==
    (pc = "exit" /\ query_failed) => exit_code # 0

\* load_config did not return: the file is missing, unparsable or lacks a key
ConfigRejected == pc # "load_config" /\ config = NoConfig

NoRequests == reset_posts = 0 /\ bulk_posts = 0 /\ legacy_posts = 0

\* C18 as stated: if the configuration is missing or invalid (no file, an
\* unparsable file, missing or invalid connection or endpoint settings), the
\* run ends with failure before any database connection is opened and
\* before any network request is made.
C18_InvalidConfigEndsBeforeAnyActivity ==
    (ConfigRejected \/ config.dsn = "invalid" \/ config.api_url = "invalid") =>
        /\ conn = "None"
        /\ NoRequests
        /\ pc = "exit" => exit_code = 1

\* C18: if the configuration file is missing or unparsable or lacks the dsn
\* or the api_url setting, the run ends in load_config with failure; then, and
\* also when the dsn it names cannot be connected to, no database connection
\* is opened, no table is extracted and no network request is made.  A
\* present but invalid api_url is not checked: that run opens the connection
\* and extracts the tables, and no request of it is ever answered.
C18_RejectedConfigEndsBeforeAnyActivity ==
    /\ ConfigRejected => pc \in {"prompt", "exit"}
    /\ (ConfigRejected \/ config.dsn = "invalid") =>
          /\ conn = "None"
          /\ data = EmptyDict
          /\ NoRequests
          /\ pc = "exit" => exit_code = 1
    /\ config.api_url = "invalid" => (acked = {} /\ bulk_result # "True")

\* a run ended by load_config
C18_Witness ==
    /\ pc = "exit"
    /\ ConfigRejected
    /\ exit_code = 1

\* C19 as stated: if every network call returns, every run terminates.
C19_EveryRunTerminates == <>(pc = "exit")

\* C19: if every network call returns, every run reaches exactly one verdict
\* after a bounded number of requests: at most one bulk request, at most 3
\* attempts of a legacy batch, at most two resets.  A successful run then
\* exits by itself with status 0; a failed run has reported its failure and
\* waits at a prompt, and exits with status 1 when the operator presses
\* Enter.  Nothing follows the exit.
C19_ReachesOneVerdict ==
    /\ <>(pc \in {"prompt", "exit"})
    /\ [](bulk_posts <= 1 /\ bulk_calls <= 1 /\ reset_posts <= 2 /\ attempts <= MAX_RETRIES)
    /\ [](legacy_posts <= MAX_RETRIES * Cardinality(AllBatches))
    /\ [](pc = "exit" => exit_code \in {0, 1})
    /\ [](pc # "exit" => exit_code = NotExited)
    /\ [][pc = "prompt" => (pc' = "exit" /\ exit_code' = 1)]_vars
    /\ [][pc = "exit" => FALSE]_vars

\* a failed run at its prompt after a bulk request and a batch's 3 attempts
C19_Witness ==
    /\ pc = "prompt"
    /\ bulk_posts = 1
    /\ legacy_posts >= MAX_RETRIES
    /\ Exhausted

\* C20 as stated: on the legacy path an attempt that fails with a transport
\* error or a non-2xx status is followed by a pause while attempts remain,
\* and a pause occurs only between attempts: none after the batch's third
\* attempt and none after a successful attempt.
C20_PauseOnlyBetweenAttempts ==
    /\ [][(pc = "legacy_handle" /\ attempts < MAX_RETRIES
              /\ (response.kind # "http" \/ response.status \notin 200..299)) =>
            pc' = "legacy_sleep"]_vars
    /\ [][pc' = "legacy_sleep" => (attempts' < MAX_RETRIES /\ ~batch_success')]_vars

\* the order the claims declare for the legacy path
DeclaredOrder == <<"acc_users", "personel", "mag_subject", "cce_assessmentitems", "cce_entry">>

\* the batches of table t, as (table, position)
BatchesOf(t) == {<<t, k>> : k \in 1..CeilDiv(Len(data[t]), BATCH_SIZE)}

\* the records of batch k of table t, by position in the table
BatchRecords(t, k) == SubSeq(data[t], (k - 1) * BATCH_SIZE + 1, Min(k * BATCH_SIZE, Len(data[t])))

\* every batch that comes before the current one: all batches of the earlier
\* tables in the declared order, and the earlier batches of the current table
EarlierBatches ==
    UNION {BatchesOf(DeclaredOrder[i]) : i \in 1..(table_index - 1)}
        \cup {<<DeclaredOrder[table_index], k>> : k \in 1..(chunk_index - 1)}

\* C21: every attempt of a legacy batch, the first one included, is of the
\* batch that comes next in the declared table order and, within its table,
\* in positional order, and it is made only when every earlier batch, and no
\* other, has been acknowledged with success.
C21_BatchesInDeclaredOrder ==
    [][attempts' = attempts + 1 =>
          /\ batch_payload.table = DeclaredOrder[table_index]
          /\ batch_payload.data = BatchRecords(DeclaredOrder[table_index], chunk_index)
          /\ acked = EarlierBatches]_vars

\* the first attempt of a table's second batch, after an earlier table's batch
C21_Witness ==
    /\ pc = "legacy_handle"
    /\ attempts = 1
    /\ chunk_index = 2
    /\ table_index >= 2
    /\ Cardinality(acked) = 2

\* the retry loop of a batch
InRetryLoop == pc \in {"legacy_attempt", "legacy_handle", "legacy_sleep", "legacy_after"}

\* C22: the payload of a legacy batch names its table, holds the batch's
\* records, has is_first_batch true exactly on batch 1 and is_last_batch true
\* exactly on the table's last batch (both on a table's only batch), and is
\* the same payload at every attempt of the batch.
C22_FlagsAndRetriesSamePayload ==
    /\ [](InRetryLoop =>
            LET t == DeclaredOrder[table_index]
            IN  /\ batch_payload.table = t
                /\ batch_payload.data = BatchRecords(t, chunk_index)
                /\ batch_payload.is_first_batch <=> chunk_index = 1
                /\ batch_payload.is_last_batch <=>
                      chunk_index = CeilDiv(Len(data[t]), BATCH_SIZE))
    /\ [][(attempts >= 1 /\ attempts' >= 1) => batch_payload' = batch_payload]_vars

\* the second attempt of the second and last batch of a table
C22_Witness ==
    /\ pc = "legacy_handle"
    /\ attempts = 2
    /\ chunk_index = 2
    /\ batch_payload.is_last_batch
    /\ ~batch_payload.is_first_batch

\* C23: in a run that ends with success every extracted record was in exactly
\* one request the server acknowledged with status 200 and the success flag:
\* either the bulk request, which carries every record, was acknowledged and
\* no legacy batch was, or the bulk request was not and every legacy batch
\* (they partition the records) was.
C23_EveryRecordAckedExactlyOnce ==
    (pc = "exit" /\ exit_code = 0) =>
        \/ bulk_acked /\ acked = {}
        \/ ~bulk_acked /\ acked = AllBatches

\* the response being handled is a status other than 200, or an exception
\* raised by requests.post or while the body was read
FailedOutright ==
    /\ pc = "legacy_handle"
    /\ \/ response.kind # "http"
       \/ response.status # 200
       \/ ~response.is_json

\* C24: on the legacy path an attempt answered with status 200 and the success
\* flag false is followed by no pause, and while attempts remain by the next
\* attempt of the same batch at once; an attempt that ends in a status other
\* than 200 or in an exception is always followed by a pause of 2 time-units,
\* and the process pauses nowhere else.
C24_PauseOnlyAfterOutrightFailure ==
    /\ [][Rejected =>
            /\ pause' = 0
            /\ pc' # "legacy_sleep"
            /\ attempts < MAX_RETRIES =>
                  (pc' = "legacy_attempt" /\ batch_payload' = batch_payload)]_vars
    /\ [][FailedOutright => (pc' = "legacy_sleep" /\ pause' = 2)]_vars
    /\ [][(pc = "legacy_attempt" /\ legacy_posts' = legacy_posts) =>
            (pc' = "legacy_sleep" /\ pause' = 2)]_vars
    /\ [](pause = (IF pc = "legacy_sleep" THEN 2 ELSE 0))

\* a rejection being handled on a batch's first attempt, nothing slept
C24_Witness ==
    /\ Rejected
    /\ attempts = 1
    /\ pause = 0
    /\ batch_payload.is_last_batch

====
